---- MODULE Spec2Model ----
(***************************************************************************)
(* Model of the dna crate (src/dna/src/lib.rs) and of its caller nuccount  *)
(* (src/nuccount/src/main.rs): the Nuc enum with its character parser, and *)
(* PackedDna with its two constructors (FromStr, FromIterator), its getter *)
(* and its frequency printer.                                              *)
(*                                                                         *)
(* A char is its Unicode scalar value, a text is a sequence of chars, a    *)
(* Nuc is one of the strings "A", "C", "G", "T".  A Vec<u8> is a sequence  *)
(* of numbers in 0..255; Rust index i is TLA+ index i + 1.                 *)
(***************************************************************************)
EXTENDS Integers, Sequences, FiniteSets, TLC

\* ---------------------------------------------------------------- bounds
MaxLen == 5
MaxIdx == 6
MaxChar == 127

\* ------------------------------------------------------------ integer widths
U8 == 256
\* 2^30: the byte index of the usize index 2^32
Pow30 == 1073741824

\* ------------------------------------------------------------------ inputs
Nuc == {"A", "C", "G", "T"}

\* 'A' 'C' 'G' 'T' 'g' 't' 'N' 'x'
Alphabet == {65, 67, 71, 84, 103, 116, 78, 120}

RECURSIVE SeqsUpTo(_, _)
SeqsUpTo(S, n) ==
    IF n = 0 THEN {<<>>}
    ELSE LET shorter == SeqsUpTo(S, n - 1)
         IN  shorter \cup {Append(q, x) : q \in {t \in shorter : Len(t) = n - 1}, x \in S}

Texts == SeqsUpTo(Alphabet, MaxLen)
NucSeqs == SeqsUpTo(Nuc, MaxLen)
\* A usize index is the pair of its 32-bit words: idx = hi * 2^32 + lo.
Usize(hi, lo) == [hi |-> hi, lo |-> lo]
Indexes == {Usize(0, i) : i \in 0..MaxIdx} \cup {Usize(1, 0), Usize(1, 1)}
CharRange == 0..MaxChar

\* ------------------------------------------------------------ bit operations
RECURSIVE BitOr(_, _)
BitOr(a, b) ==
    IF a = 0 THEN b
    ELSE IF b = 0 THEN a
    ELSE (IF a % 2 = 1 \/ b % 2 = 1 THEN 1 ELSE 0) + 2 * BitOr(a \div 2, b \div 2)

RECURSIVE BitAnd(_, _)
BitAnd(a, b) ==
    IF a = 0 \/ b = 0 THEN 0
    ELSE (IF a % 2 = 1 /\ b % 2 = 1 THEN 1 ELSE 0) + 2 * BitAnd(a \div 2, b \div 2)

\* u8 << k : bits shifted out of the byte are dropped
Shl(x, k) == (x * (2 ^ k)) % U8

\* u8 >> k
Shr(x, k) == x \div (2 ^ k)

\* ------------------------------------------------------------------- chars
to_ascii_uppercase(ch) == IF ch >= 97 /\ ch <= 122 THEN ch - 32 ELSE ch

str_to_ascii_uppercase(s) == [i \in 1..Len(s) |-> to_ascii_uppercase(s[i])]

\* ------------------------------------------------------------------ results
NoNuc == "-"
ZeroCounts == [n \in Nuc |-> 0]
NoRes == [kind |-> "none", diag |-> "none", nuc |-> NoNuc, err_data |-> <<>>, counts |-> ZeroCounts]

\* ---------------------------------------------------------------- Nuc parse
\* Variant of try_from whose fallback arm yields T, as bits_enum_convert does.
try_from_coerce(value) ==
    LET u == to_ascii_uppercase(value)
    IN  IF u = 65 THEN [NoRes EXCEPT !.kind = "ok", !.nuc = "A"]
        ELSE IF u = 67 THEN [NoRes EXCEPT !.kind = "ok", !.nuc = "C"]
        ELSE IF u = 71 THEN [NoRes EXCEPT !.kind = "ok", !.nuc = "G"]
        ELSE [NoRes EXCEPT !.kind = "ok", !.nuc = "T"]

try_from(value) ==
    LET u == to_ascii_uppercase(value)
    IN  IF u = 65 THEN [NoRes EXCEPT !.kind = "ok", !.nuc = "A"]
        ELSE IF u = 67 THEN [NoRes EXCEPT !.kind = "ok", !.nuc = "C"]
        ELSE IF u = 71 THEN [NoRes EXCEPT !.kind = "ok", !.nuc = "G"]
        ELSE IF u = 84 THEN [NoRes EXCEPT !.kind = "ok", !.nuc = "T"]
        ELSE [NoRes EXCEPT !.kind = "err", !.diag = "ParseNucError", !.err_data = <<value>>]

\* ---------------------------------------------------------- code conversions
char_bits_convert(value) ==
    LET u == to_ascii_uppercase(value)
    IN  IF u = 65 THEN 0
        ELSE IF u = 67 THEN 1
        ELSE IF u = 71 THEN 2
        ELSE IF u = 84 THEN 3
        ELSE 8

enum_bits_convert(value) ==
    CASE value = "A" -> 0
      [] value = "C" -> 1
      [] value = "G" -> 2
      [] value = "T" -> 3

bits_enum_convert(value) ==
    IF value = 0 THEN "A"
    ELSE IF value = 1 THEN "C"
    ELSE IF value = 2 THEN "G"
    ELSE "T"

\* ----------------------------------------------------------------- PackedDna
new(data, data_len) == [data |-> data, data_len |-> data_len]

\* One iteration of the packing loop shared by both constructors:
\* flush the accumulator when a fifth symbol arrives, then shift the code in.
\* size is a u32; inputs here are far shorter than 2^32, so size += 1 never wraps.
PackStep(st, val) ==
    LET flush == (st.size % 4) % U8 = 0 /\ st.size # 0
        arr == IF flush THEN Append(st.arr, st.local_data) ELSE st.arr
        local == IF flush THEN 0 ELSE st.local_data
    IN  [st EXCEPT !.arr = arr,
                   !.local_data = BitOr(Shl(local, 2), val),
                   !.size = st.size + 1]

\* After the loop: a partial accumulator is stored in a new byte.
PackFinish(st) == IF st.size % 4 # 0 THEN Append(st.arr, st.local_data) ELSE st.arr

PackInit == [arr |-> <<>>, size |-> 0, local_data |-> 0, err_data |-> <<>>]

RECURSIVE from_iter_loop(_, _, _)
from_iter_loop(iter, i, st) ==
    IF i > Len(iter) THEN st
    ELSE from_iter_loop(iter, i + 1, PackStep(st, enum_bits_convert(iter[i])))

from_iter(iter) ==
    LET st == from_iter_loop(iter, 1, PackInit)
    IN  new(PackFinish(st), st.size)

RECURSIVE from_str_loop(_, _, _)
from_str_loop(dna_data, i, st) ==
    IF i > Len(dna_data) THEN st
    ELSE LET ch == dna_data[i]
             st1 == IF try_from(ch).kind = "err"
                    THEN [st EXCEPT !.err_data = Append(st.err_data, ch)]
                    ELSE st
         IN  from_str_loop(dna_data, i + 1, PackStep(st1, char_bits_convert(ch)))

\* Variant of from_str that reports only the first invalid char.
from_str_first_only(text) ==
    LET dna_data == str_to_ascii_uppercase(text)
        st == from_str_loop(dna_data, 1, PackInit)
        arr == PackFinish(st)
    IN  IF Len(st.err_data) # 0
        THEN [res |-> [NoRes EXCEPT !.kind = "exit", !.diag = "InvalidChars",
                                    !.err_data = <<st.err_data[1]>>],
              dna |-> new(<<>>, 0)]
        ELSE [res |-> [NoRes EXCEPT !.kind = "ok"], dna |-> new(arr, st.size)]

\* The result of PackedDna::from_str: either the process exits with the list
\* of invalid chars, or Ok(PackedDna).
from_str(s) ==
    LET dna_data == str_to_ascii_uppercase(s)
        st == from_str_loop(dna_data, 1, PackInit)
        arr == PackFinish(st)
    IN  IF Len(st.err_data) # 0
        THEN [res |-> [NoRes EXCEPT !.kind = "exit", !.diag = "InvalidChars",
                                    !.err_data = st.err_data],
              dna |-> new(<<>>, 0)]
        ELSE [res |-> [NoRes EXCEPT !.kind = "ok"], dna |-> new(arr, st.size)]

\* PackedDna::get: exit on idx > data_len, panic when the byte is outside the
\* Vec, otherwise the decoded bit pair.
\* idx as u32 keeps the low word; idx / 4 and idx % 4 use the whole index.
as_u32(i) == i.lo
Div4(i) == i.hi * Pow30 + (i.lo \div 4)
Mod4(i) == i.lo % 4

get(self, i) ==
    IF as_u32(i) > self.data_len
    THEN [NoRes EXCEPT !.kind = "exit", !.diag = "IndexExceeds"]
    ELSE IF Div4(i) >= Len(self.data)
    THEN [NoRes EXCEPT !.kind = "panic", !.diag = "VecIndexOutOfRange"]
    ELSE LET data == self.data[Div4(i) + 1]
             item == BitAnd(Shr(data, Mod4(i) * 2), 3)
         IN  [NoRes EXCEPT !.kind = "ok", !.nuc = bits_enum_convert(item)]

RECURSIVE print_data_loop(_, _, _)
print_data_loop(self, inx, cnt) ==
    IF inx >= self.data_len THEN [NoRes EXCEPT !.kind = "ok", !.counts = cnt]
    ELSE LET val == get(self, Usize(0, inx))
         IN  IF val.kind # "ok" THEN val
             ELSE print_data_loop(self, inx + 1, [cnt EXCEPT ![val.nuc] = @ + 1])

\* Variant of print_data without the empty-sequence check.
print_data_unchecked(self) == print_data_loop(self, 0, ZeroCounts)

print_data(self) ==
    IF self.data_len = 0
    THEN [NoRes EXCEPT !.kind = "exit", !.diag = "EmptySequence"]
    ELSE print_data_loop(self, 0, ZeroCounts)

\* ------------------------------------------------------------------- state
VARIABLES
    pc,     \* where main is: "init", "built", "exited" (process::exit), "panicked"
    src,    \* which constructor was called: "none", "str", "iter" ("char" for try_from)
    s,      \* the text given to from_str
    iter,   \* the symbols given to from_iter
    dna,    \* the PackedDna: data (Vec<u8>) and data_len
    op,     \* the last operation called
    idx,    \* the index given to the last get
    res     \* what the last operation produced

vars == <<pc, src, s, iter, dna, op, idx, res>>

PcAfter(r) == IF r.kind = "exit" THEN "exited"
              ELSE IF r.kind = "panic" THEN "panicked"
              ELSE "built"

Init ==
    /\ pc = "init"
    /\ src = "none"
    /\ s = <<>>
    /\ iter = <<>>
    /\ dna = new(<<>>, 0)
    /\ op = "none"
    /\ idx = Usize(0, 0)
    /\ res = NoRes

\* let d = PackedDna::from_str(&dna1)
FromStr ==
    /\ pc = "init"
    /\ \E text \in Texts :
          LET r == from_str(text)
          IN  /\ s' = text
              /\ res' = r.res
              /\ dna' = r.dna
              /\ pc' = PcAfter(r.res)
    /\ src' = "str"
    /\ op' = "from_str"
    /\ UNCHANGED <<iter, idx>>

\* PackedDna::from_iter(vec![...])
FromIter ==
    /\ pc = "init"
    /\ \E items \in NucSeqs :
          /\ iter' = items
          /\ dna' = from_iter(items)
    /\ res' = [NoRes EXCEPT !.kind = "ok"]
    /\ pc' = "built"
    /\ src' = "iter"
    /\ op' = "from_iter"
    /\ UNCHANGED <<s, idx>>

\* d.get(i)
Get ==
    /\ pc = "built"
    /\ \E i \in Indexes :
          /\ idx' = i
          /\ res' = get(dna, i)
          /\ pc' = PcAfter(get(dna, i))
    /\ op' = "get"
    /\ UNCHANGED <<src, s, iter, dna>>

\* d.print_data()
PrintData ==
    /\ pc = "built"
    /\ res' = print_data(dna)
    /\ pc' = PcAfter(print_data(dna))
    /\ op' = "print_data"
    /\ UNCHANGED <<src, s, iter, dna, idx>>

Next == FromStr \/ FromIter \/ Get \/ PrintData

Spec == Init /\ [][Next]_vars

\* ------------------------------------------------- Nuc::try_from on its own
InitNuc ==
    /\ pc = "init"
    /\ src = "char"
    /\ s \in {<<ch>> : ch \in CharRange}
    /\ iter = <<>>
    /\ dna = new(<<>>, 0)
    /\ op = "none"
    /\ idx = Usize(0, 0)
    /\ res = NoRes

TryFrom ==
    /\ pc = "init"
    /\ src = "char"
    /\ op = "none"
    /\ res' = try_from(s[1])
    /\ op' = "try_from"
    /\ UNCHANGED <<pc, src, s, iter, dna, idx>>

NextNuc == TryFrom

SpecNuc == InitNuc /\ [][NextNuc]_vars

\* ===================================================== claim vocabulary
ValidChars == {65, 67, 71, 84, 97, 99, 103, 116}

NucOfChar(ch) ==
    IF ch \in {65, 97} THEN "A"
    ELSE IF ch \in {67, 99} THEN "C"
    ELSE IF ch \in {71, 103} THEN "G"
    ELSE IF ch \in {84, 116} THEN "T"
    ELSE NoNuc

CodeOfNuc(n) == IF n = "A" THEN 0 ELSE IF n = "C" THEN 1 ELSE IF n = "G" THEN 2 ELSE 3

IsOffending(ch) == ch \notin ValidChars

Offending(text) == SelectSeq(text, IsOffending)

UpperCased(text) == [i \in 1..Len(text) |-> IF text[i] \in 97..122 THEN text[i] - 32 ELSE text[i]]

HasOffending(text) == \E i \in 1..Len(text) : IsOffending(text[i])

\* The symbols handed to the constructor, whichever constructor it was.
InputNucs == IF src = "str" THEN [i \in 1..Len(s) |-> NucOfChar(s[i])] ELSE iter

Constructed == op \in {"from_str", "from_iter"} /\ pc = "built"

CeilDiv4(n) == (n + 3) \div 4

Occurrences(q, n) == Cardinality({i \in 1..Len(q) : q[i] = n})

InRange == idx.hi = 0 /\ idx.lo < dna.data_len

\* The accumulator algorithm in closed form: group k holds symbols
\* 4(k-1)+1 .. min(4k, n); each symbol shifts the earlier ones up by 2 bits.
RECURSIVE GroupByte(_, _, _, _)
GroupByte(q, from, to, acc) ==
    IF from > to THEN acc
    ELSE GroupByte(q, from + 1, to, acc * 4 + CodeOfNuc(q[from]))

RefPack(q) ==
    [k \in 1..CeilDiv4(Len(q)) |->
        GroupByte(q, 4 * (k - 1) + 1, IF 4 * k < Len(q) THEN 4 * k ELSE Len(q), 0)]

\* ================================================================= claims

\* C1: round trip. After from_str on a text of A/C/G/T in any case, get(i)
\* for i < length returns the i-th symbol of the input.
C1_RoundTrip ==
    (op = "get" /\ src = "str" /\ InRange)
        => (res.kind = "ok" /\ res.nuc = NucOfChar(s[idx.lo + 1]))

\* C2: length invariant. A sequence constructed from n symbols has
\* data_len = n and a buffer of exactly ceil(n / 4) bytes.
C2_LengthInvariant ==
    Constructed
        => (/\ dna.data_len = Len(InputNucs)
            /\ Len(dna.data) = CeilDiv4(Len(InputNucs)))

\* C3: bounds error. get(index) with index >= length yields the index
\* error outcome and never a nucleotide.
C3_BoundsError ==
    (op = "get" /\ ~InRange)
        => (res.kind = "exit" /\ res.diag = "IndexExceeds" /\ res.nuc = NoNuc)

\* C4: in-range access is safe. get(index) with index < length returns a
\* nucleotide and the byte it reads lies inside the buffer.
C4_InRangeSafe ==
    (op = "get" /\ InRange)
        => (res.kind = "ok" /\ res.nuc \in Nuc /\ Div4(idx) < Len(dna.data))

\* C5: frequency summary. On a nonempty sequence print_data completes and
\* each of the four counts is the number of occurrences of that symbol in
\* the input, so the counts sum to the length.
C5_FrequencySummary ==
    (op = "print_data" /\ Len(InputNucs) >= 1)
        => (/\ res.kind = "ok"
            /\ \A n \in Nuc : res.counts[n] = Occurrences(InputNucs, n)
            /\ res.counts["A"] + res.counts["C"] + res.counts["G"] + res.counts["T"]
                 = dna.data_len)

\* C6 as stated: from_str on a text with an invalid character fails with the
\* invalid-symbols error listing every offending character of the input, in
\* input order, and produces no PackedDna.
C6_ListsInputChars ==
    (op = "from_str" /\ HasOffending(s))
        => (/\ res.kind = "exit" /\ res.diag = "InvalidChars"
            /\ res.err_data = Offending(s)
            /\ pc # "built" /\ dna = new(<<>>, 0))

\* C6 amended: from_str on a text with an invalid character fails with the
\* invalid-symbols error listing, in input order, the ASCII-uppercased form
\* of every offending character, and produces no PackedDna.
C6_ListsUppercased ==
    (op = "from_str" /\ HasOffending(s))
        => (/\ res.kind = "exit" /\ res.diag = "InvalidChars"
            /\ res.err_data = UpperCased(Offending(s))
            /\ pc # "built" /\ dna = new(<<>>, 0))

C6_Witness ==
    /\ op = "from_str"
    /\ Len(Offending(s)) >= 2
    /\ \E i \in 1..Len(s) : s[i] = 120
    /\ \E i \in 1..Len(s) : s[i] \in ValidChars
    /\ res.err_data # Offending(s)
    /\ Len(res.err_data) = Len(Offending(s))

\* C7: empty sequence. Both constructors succeed on an empty input with
\* length 0 and an empty buffer, and print_data on a zero-length sequence
\* yields the empty-sequence error outcome and reports no counts.
C7_EmptySequence ==
    /\ (Constructed /\ Len(InputNucs) = 0) => (res.kind = "ok" /\ dna = new(<<>>, 0))
    /\ (op \in {"from_str", "from_iter"} /\ Len(s) = 0 /\ Len(iter) = 0) => pc = "built"
    /\ (op = "print_data" /\ dna.data_len = 0)
         => (/\ res.kind = "exit" /\ res.diag = "EmptySequence"
             /\ res.counts = ZeroCounts /\ pc = "exited")

C7_Witness ==
    /\ op = "print_data"
    /\ src = "str"
    /\ s = <<>>
    /\ dna.data_len = 0
    /\ res.diag = "EmptySequence"

\* C8: the core never terminates the process. No operation leaves the
\* process exited; each returns a value to its caller.
C8_NeverExits == pc # "exited" /\ res.kind # "exit"

\* C10: shared packing. Both constructors produce the same buffer for the
\* same symbols, and it equals the output of the accumulator algorithm:
\* one byte per completed group of four, one byte for a final group of 1..3.
C10_SharedPacking ==
    Constructed
        => (/\ dna.data = RefPack(InputNucs)
            /\ from_iter(InputNucs).data = dna.data)

\* C9: Nuc::try_from(c) succeeds exactly on a/A, c/C, g/G, t/T, returning
\* the matching variant; on every other character it fails with an error
\* carrying c and returns no variant.
C9_ParseChar ==
    op = "try_from"
        => LET ch == s[1]
           IN  /\ res.kind = "ok" <=> ch \in ValidChars
               /\ ch \in ValidChars => res.nuc = NucOfChar(ch)
               /\ ch \notin ValidChars
                    => (res.kind = "err" /\ res.err_data = <<ch>> /\ res.nuc = NoNuc)

C9_Witness ==
    /\ op = "try_from"
    /\ s = <<103>>
    /\ res.kind = "ok"
    /\ res.nuc = "G"
====
